---------------------------- MODULE Spec2Model ----------------------------
(***************************************************************************)
(* ItemId: distributed site-unique 64-bit IDs (src/itemid.js).             *)
(*                                                                         *)
(* An ID is two signed 32-bit halves (low_, high_) holding a 44-bit        *)
(* millisecond timestamp, a 12-bit counter and an 8-bit machine ID.  The   *)
(* module keeps two unit-global variables, ITEM_ID_counter and             *)
(* ITEM_ID_machine_id.                                                     *)
(*                                                                         *)
(* JavaScript values are modelled as follows.                              *)
(*  - a string is a sequence of one-character strings;                     *)
(*  - a Number is a record [nan, neg, int, frac]: int holds the hex digits *)
(*    of the integer part (most significant first, no leading zero), frac  *)
(*    the hex digits after the point (no trailing zero).  Every Number the *)
(*    program computes here is a dyadic rational, so this is exact; the    *)
(*    one rounding addition (getTimestamp) rounds to 53 significant bits;  *)
(*  - a signed 32-bit integer (the stored halves) and the small counters   *)
(*    are plain integers.                                                  *)
(***************************************************************************)
EXTENDS Integers, Sequences, FiniteSets, TLC

(***************************************************************************)
(* Strings                                                                 *)
(***************************************************************************)
HexChars == <<"0", "1", "2", "3", "4", "5", "6", "7",
              "8", "9", "a", "b", "c", "d", "e", "f">>

UpperHexChars == <<"0", "1", "2", "3", "4", "5", "6", "7",
                   "8", "9", "A", "B", "C", "D", "E", "F">>

IsHexChar(c) == \E i \in 1..16 : HexChars[i] = c \/ UpperHexChars[i] = c

\* The value of a hexadecimal digit character, either case.
DigitValue(c) == (CHOOSE i \in 1..16 : HexChars[i] = c \/ UpperHexChars[i] = c) - 1

\* String.prototype.toLowerCase, on the characters the model uses.
toLowerCase(s) ==
    [i \in 1..Len(s) |-> IF IsHexChar(s[i]) THEN HexChars[DigitValue(s[i]) + 1] ELSE s[i]]

\* String.prototype.slice(-n): the last n characters (the whole string when shorter).
SliceLast(s, n) == IF Len(s) <= n THEN s ELSE SubSeq(s, Len(s) - n + 1, Len(s))

\* String.prototype.slice(-a, -b) with a > b > 0.
SliceBetween(s, a, b) ==
    LET from == IF Len(s) <= a THEN 1 ELSE Len(s) - a + 1
        to   == Len(s) - b
    IN  IF to < from THEN << >> ELSE SubSeq(s, from, to)

(***************************************************************************)
(* Numbers                                                                 *)
(***************************************************************************)
RECURSIVE StripZeros(_)
StripZeros(d) == IF Len(d) > 1 /\ d[1] = 0 THEN StripZeros(Tail(d))
                 ELSE IF Len(d) = 0 THEN <<0>> ELSE d

RECURSIVE StripTrailingZeros(_)
StripTrailingZeros(d) ==
    IF Len(d) > 0 /\ d[Len(d)] = 0 THEN StripTrailingZeros(SubSeq(d, 1, Len(d) - 1)) ELSE d

NaN == [nan |-> TRUE, neg |-> FALSE, int |-> << >>, frac |-> << >>]

\* The Number with integer digits d and fraction digits f.
MkNum(neg, d, f) ==
    LET i == StripZeros(d)
        r == StripTrailingZeros(f)
    IN  [nan |-> FALSE, neg |-> neg /\ ~(i = <<0>> /\ r = << >>), int |-> i, frac |-> r]

RECURSIVE NatDigits(_)
NatDigits(n) == IF n < 16 THEN <<n>> ELSE Append(NatDigits(n \div 16), n % 16)

\* The Number of a (model) integer above -2^31.
Num(n) == IF n < 0 THEN MkNum(TRUE, NatDigits(-n), << >>) ELSE MkNum(FALSE, NatDigits(n), << >>)

RECURSIVE DigitsToInt(_)
DigitsToInt(d) == IF Len(d) = 0 THEN 0
                  ELSE 16 * DigitsToInt(SubSeq(d, 1, Len(d) - 1)) + d[Len(d)]

PadLeft(d, n) == [i \in 1..(n - Len(d)) |-> 0] \o d

\* d1 < d2 for digit sequences without leading zeros.
RECURSIVE DigitsLess(_, _)
DigitsLess(d1, d2) ==
    IF Len(d1) # Len(d2) THEN Len(d1) < Len(d2)
    ELSE IF Len(d1) = 0 THEN FALSE
    ELSE IF d1[1] # d2[1] THEN d1[1] < d2[1]
    ELSE DigitsLess(Tail(d1), Tail(d2))

\* a < b on Numbers (false when either is NaN, as in JavaScript).
Less(a, b) ==
    IF a.nan \/ b.nan THEN FALSE
    ELSE IF a.neg # b.neg THEN a.neg
    ELSE LET lt(x, y) == \/ DigitsLess(x.int, y.int)
                         \/ /\ x.int = y.int
                            /\ LET n  == IF Len(x.frac) > Len(y.frac) THEN Len(x.frac) ELSE Len(y.frac)
                                   fx == x.frac \o [i \in 1..(n - Len(x.frac)) |-> 0]
                                   fy == y.frac \o [i \in 1..(n - Len(y.frac)) |-> 0]
                               IN  fx # fy /\ DigitsLess(fx, fy)
         IN  IF a.neg THEN lt(b, a) ELSE lt(a, b)

\* Number.isNaN
isNaN(a) == a.nan

\* Number.prototype.toString(16)
toString16(a) ==
    IF a.nan THEN <<"N", "a", "N">>
    ELSE (IF a.neg THEN <<"-">> ELSE << >>)
         \o [i \in 1..Len(a.int) |-> HexChars[a.int[i] + 1]]
         \o (IF a.frac = << >> THEN << >>
             ELSE <<".">> \o [i \in 1..Len(a.frac) |-> HexChars[a.frac[i] + 1]])

\* The longest prefix of s made of hexadecimal digits.
RECURSIVE HexPrefix(_)
HexPrefix(s) == IF Len(s) > 0 /\ IsHexChar(s[1]) THEN <<s[1]>> \o HexPrefix(Tail(s)) ELSE << >>

RECURSIVE TrimLeft(_)
TrimLeft(s) == IF Len(s) > 0 /\ s[1] = " " THEN TrimLeft(Tail(s)) ELSE s

\* parseInt(s, 16): leading blanks, an optional sign and an optional 0x are
\* skipped, then the longest run of hex digits is read; NaN when there is none.
parseInt16(s) ==
    LET t      == TrimLeft(s)
        signed == Len(t) > 0 /\ t[1] \in {"-", "+"}
        neg    == Len(t) > 0 /\ t[1] = "-"
        u      == IF signed THEN Tail(t) ELSE t
        v      == IF Len(u) >= 2 /\ u[1] = "0" /\ u[2] \in {"x", "X"} THEN Tail(Tail(u)) ELSE u
        p      == HexPrefix(v)
    IN  IF p = << >> THEN NaN
        ELSE MkNum(neg, [i \in 1..Len(p) |-> DigitValue(p[i])], << >>)

\* x | 0 (ToInt32): NaN gives 0, the fraction is dropped, the value is taken
\* modulo 2^32 and read as a signed 32-bit integer.
ToInt32(a) ==
    IF a.nan THEN 0
    ELSE LET w   == PadLeft(SliceLast(a.int, 8), 8)
             low == DigitsToInt(<<w[1] % 8>> \o Tail(w))     \* bits 0..30
             u   == IF w[1] >= 8 THEN low - 2147483647 - 1 ELSE low
         IN  IF ~a.neg THEN u
             ELSE IF u = -2147483647 - 1 THEN u ELSE -u

\* x >= 0 ? x : x + 0x100000000, for a signed 32-bit integer x.
Unsigned(x) ==
    IF x >= 0 THEN Num(x)
    ELSE LET y == NatDigits(x + 2147483647 + 1)
             w == PadLeft(y, 8)
         IN  MkNum(FALSE, <<w[1] + 8>> \o Tail(w), << >>)


\* The bits of a digit sequence, most significant first.
Bits(d) == [i \in 1..(4 * Len(d)) |->
               LET x == d[((i + 3) \div 4)]
                   k == (i - 1) % 4
               IN  IF k = 0 THEN x \div 8
                   ELSE IF k = 1 THEN (x \div 4) % 2
                   ELSE IF k = 2 THEN (x \div 2) % 2
                   ELSE x % 2]

Nibbles(b) == [j \in 1..(Len(b) \div 4) |->
                  8 * b[4 * j - 3] + 4 * b[4 * j - 2] + 2 * b[4 * j - 1] + b[4 * j]]

RECURSIVE AddOneAt(_, _)
AddOneAt(b, k) == IF k = 0 THEN b
                  ELSE IF b[k] = 0 THEN [b EXCEPT ![k] = 1]
                  ELSE AddOneAt([b EXCEPT ![k] = 0], k - 1)

\* IEEE 754 binary64 rounding of a bit string (round to nearest, ties to
\* even): only the 53 bits from the first 1 bit on are kept.
RoundToDouble(b) ==
    LET ones == {i \in 1..Len(b) : b[i] = 1}
        p    == IF ones = {} THEN 0 ELSE CHOOSE i \in ones : \A j \in ones : i <= j
        last == p + 52
    IN  IF p = 0 \/ last >= Len(b) THEN b
        ELSE LET kept   == [i \in 1..Len(b) |-> IF i <= last THEN b[i] ELSE 0]
                 sticky == \E i \in (last + 2)..Len(b) : b[i] = 1
                 up     == b[last + 1] = 1 /\ (sticky \/ b[last] = 1)
             IN  IF up THEN AddOneAt(kept, last) ELSE kept

RECURSIVE AddDigits(_, _, _)
AddDigits(x, y, c) ==
    IF Len(x) = 0 THEN << >>
    ELSE LET s == x[Len(x)] + y[Len(y)] + c
         IN  Append(AddDigits(SubSeq(x, 1, Len(x) - 1), SubSeq(y, 1, Len(y) - 1), s \div 16),
                    s % 16)

\* a + b for Numbers that are not negative: the exact sum, rounded to a double.
Plus(a, b) ==
    IF a.nan \/ b.nan THEN NaN
    ELSE LET nf  == IF Len(a.frac) > Len(b.frac) THEN Len(a.frac) ELSE Len(b.frac)
             ni  == 1 + (IF Len(a.int) > Len(b.int) THEN Len(a.int) ELSE Len(b.int))
             da  == PadLeft(a.int, ni) \o a.frac \o [i \in 1..(nf - Len(a.frac)) |-> 0]
             db  == PadLeft(b.int, ni) \o b.frac \o [i \in 1..(nf - Len(b.frac)) |-> 0]
             sum == Nibbles(RoundToDouble(Bits(AddDigits(da, db, 0))))
         IN  MkNum(FALSE, SubSeq(sum, 1, ni), SubSeq(sum, ni + 1, ni + nf))

\* a * 16^k (exact: a power of two only moves the exponent).
ShiftLeft(a, k) ==
    IF a.nan THEN NaN
    ELSE LET f == a.frac \o [i \in 1..(k - Len(a.frac)) |-> 0]
         IN  MkNum(a.neg, a.int \o SubSeq(f, 1, k), SubSeq(f, k + 1, Len(f)))

\* a / 16^k (exact likewise).
ShiftRight(a, k) ==
    IF a.nan THEN NaN
    ELSE LET d == PadLeft(a.int, IF Len(a.int) > k THEN Len(a.int) ELSE k + 1)
         IN  MkNum(a.neg, SubSeq(d, 1, Len(d) - k), SubSeq(d, Len(d) - k + 1, Len(d)) \o a.frac)

\* Math.floor of a Number that is not negative.
floor(a) == IF a.nan THEN NaN ELSE MkNum(FALSE, a.int, << >>)

(***************************************************************************)
(* JavaScript values passed as arguments                                   *)
(***************************************************************************)
Undefined    == [type |-> "undefined"]
Null         == [type |-> "null"]
StringV(s)   == [type |-> "string", s |-> s]
NumberV(n)   == [type |-> "number", n |-> n]
PlainObject  == [type |-> "object"]

IsDecimalChar(c) == IsHexChar(c) /\ DigitValue(c) < 10 /\ c \notin {"A", "B", "C", "D", "E", "F"}

RECURSIVE DecimalToInt(_)
DecimalToInt(s) == IF Len(s) = 0 THEN 0
                   ELSE 10 * DecimalToInt(SubSeq(s, 1, Len(s) - 1)) + DigitValue(s[Len(s)])

\* ToNumber of a string: the empty string is 0, a run of decimal digits (at
\* most 9 here) or 0x and hex digits is its value, anything else is NaN.
StringToNumber(s) ==
    IF s = << >> THEN Num(0)
    ELSE IF Len(s) <= 9 /\ \A i \in 1..Len(s) : IsDecimalChar(s[i]) THEN Num(DecimalToInt(s))
    ELSE IF Len(s) > 2 /\ s[1] = "0" /\ s[2] \in {"x", "X"}
            /\ \A i \in 3..Len(s) : IsHexChar(s[i])
         THEN MkNum(FALSE, [i \in 1..(Len(s) - 2) |-> DigitValue(s[i + 2])], << >>)
    ELSE NaN

\* Number(v)
ToNumber(v) ==
    CASE v.type = "undefined" -> NaN
      [] v.type = "null"      -> Num(0)
      [] v.type = "string"    -> StringToNumber(v.s)
      [] v.type = "number"    -> v.n
      [] OTHER                -> NaN


\* Whether a value is truthy (arg1 ? ... : ...).
Truthy(v) ==
    CASE v.type = "undefined" -> FALSE
      [] v.type = "null"      -> FALSE
      [] v.type = "string"    -> v.s # << >>
      [] v.type = "number"    -> ~v.n.nan /\ v.n # Num(0)
      [] OTHER                -> TRUE

(***************************************************************************)
(* The stored identifier: Long.call(this, low, high) keeps low | 0 and     *)
(* high | 0 in the fields low_ and high_.                                  *)
(***************************************************************************)
Long(low, high) == [low_ |-> ToInt32(low), high_ |-> ToInt32(high)]

\* An identifier passed as an argument.
ItemIdV(id) == [type |-> "ItemId", low_ |-> id.low_, high_ |-> id.high_]

\* The hex digits of 10 * d + c, d being hex digits.
RECURSIVE MulTenAdd(_, _)
MulTenAdd(d, c) ==
    IF Len(d) = 0 THEN (IF c = 0 THEN << >> ELSE NatDigits(c))
    ELSE LET v == d[Len(d)] * 10 + c
         IN  Append(MulTenAdd(SubSeq(d, 1, Len(d) - 1), v \div 16), v % 16)

\* The hex digits of the whole number a string of decimal digits writes.
RECURSIVE DecimalDigits(_)
DecimalDigits(s) ==
    IF Len(s) = 0 THEN << >>
    ELSE MulTenAdd(DecimalDigits(SubSeq(s, 1, Len(s) - 1)), DigitValue(s[Len(s)]))

\* Long.fromString(s, 10) for a string of decimal digits: the halves of the
\* 64-bit integer.
fromString10(s) ==
    LET w == PadLeft(DecimalDigits(s), 16)
        v == SubSeq(w, Len(w) - 15, Len(w))
    IN  Long(MkNum(FALSE, SubSeq(v, 9, 16), << >>), MkNum(FALSE, SubSeq(v, 1, 8), << >>))

\* Long.prototype.getLowBitsUnsigned
getLowBitsUnsigned(id) == Unsigned(id.low_)

\* One 32-bit half in stringify.
HalfToString(x) ==
    IF x >= 268435455 THEN toString16(Num(x))
    ELSE IF x >= 0 THEN <<"0">> \o toString16(Num(x))
    ELSE toString16(Unsigned(x))

stringify(low, high) == HalfToString(high) \o HalfToString(low)

valueOf(id) == stringify(id.low_, id.high_)

toJSON(id) == stringify(id.low_, id.high_)

\* toString() with an empty argument list.
toString(id) == stringify(id.low_, id.high_)

CastPrefix == <<"C", "A", "S", "T", "(", "X", "'">>

toMySQL(id) == CastPrefix \o stringify(id.low_, id.high_)
               \o <<"'", " ", "A", "S", " ", "U", "N", "S", "I", "G", "N", "E", "D", ")">>

toPostgreSQL(id) == CastPrefix \o stringify(id.low_, id.high_)
                    \o <<"'", " ", "A", "S", " ", "b", "i", "g", "i", "n", "t", ")">>

\* (getLowBitsUnsigned() >>> 8) & 0xfff: hex digits 4..6 from the right.
getCounterValue(id) ==
    LET w == PadLeft(getLowBitsUnsigned(id).int, 8)
    IN  DigitsToInt(SubSeq(w, 4, 6))

\* getLowBitsUnsigned() & 0xff: the last two hex digits.
getMachineId(id) ==
    LET w == PadLeft(getLowBitsUnsigned(id).int, 8)
    IN  DigitsToInt(SubSeq(w, 7, 8))

\* Math.floor((high * 4096) + (getLowBitsUnsigned() / 1048576))
getTimestamp(id) ==
    LET high == Unsigned(id.high_)
    IN  floor(Plus(ShiftLeft(high, 3), ShiftRight(getLowBitsUnsigned(id), 5)))

equal(a, b) == a.high_ = b.high_ /\ a.low_ = b.low_

\* compare without the conversion of the halves to unsigned values.
compare_Signed(a, b) ==
    IF a.high_ = b.high_
    THEN (IF a.low_ > b.low_ THEN 1 ELSE IF a.low_ < b.low_ THEN -1 ELSE 0)
    ELSE (IF a.high_ > b.high_ THEN 1 ELSE -1)

compare(a, b) ==
    LET thisHi == Unsigned(a.high_)
        thatHi == Unsigned(b.high_)
        thisLo == Unsigned(a.low_)
        thatLo == Unsigned(b.low_)
    IN  IF thisHi = thatHi
        THEN (IF Less(thatLo, thisLo) THEN 1 ELSE IF Less(thisLo, thatLo) THEN -1 ELSE 0)
        ELSE (IF Less(thatHi, thisHi) THEN 1 ELSE -1)

\* ITEM_ID_regex.test(id) with a regular expression that lacks the closing $.
test_Unanchored(id) == Len(id) >= 16 /\ \A i \in 1..16 : IsHexChar(id[i])

\* ITEM_ID_regex.test(id)
test(id) == Len(id) = 16 /\ \A i \in 1..Len(id) : IsHexChar(id[i])

(***************************************************************************)
(* The unit-global variables of one process, as a record                   *)
(* [ITEM_ID_counter, ITEM_ID_machine_id], and the functions that use them. *)
(***************************************************************************)
\* String(v) for the values ITEM_ID_machine_id takes.
MachineIdString(v) == IF v.type = "null" THEN <<"n", "u", "l", "l">> ELSE v.s

\* newId without the mask that keeps the counter at 12 bits.
newId_NoMask(g, now) ==
    LET c   == g.ITEM_ID_counter + 1
        pad == IF c > 255 THEN << >> ELSE IF c > 15 THEN <<"0">> ELSE <<"0", "0">>
    IN  [g   |-> [g EXCEPT !.ITEM_ID_counter = c],
         ret |-> toString16(now) \o pad \o toString16(Num(c))
                 \o MachineIdString(g.ITEM_ID_machine_id)]

\* newId with a mask of 13 bits.
newId_ThirteenBits(g, now) ==
    LET c   == (g.ITEM_ID_counter + 1) % 8192
        pad == IF c > 255 THEN << >> ELSE IF c > 15 THEN <<"0">> ELSE <<"0", "0">>
    IN  [g   |-> [g EXCEPT !.ITEM_ID_counter = c],
         ret |-> toString16(now) \o pad \o toString16(Num(c))
                 \o MachineIdString(g.ITEM_ID_machine_id)]

\* newId(): [g |-> the variables after the call, ret |-> the string returned].
newId(g, now) ==
    LET c   == (g.ITEM_ID_counter + 1) % 4096
        pad == IF c > 255 THEN << >> ELSE IF c > 15 THEN <<"0">> ELSE <<"0", "0">>
    IN  [g   |-> [g EXCEPT !.ITEM_ID_counter = c],
         ret |-> toString16(now) \o pad \o toString16(Num(c))
                 \o MachineIdString(g.ITEM_ID_machine_id)]

\* setMachineId with the range test left out of the validation.
setMachineId_NoRangeTest(g, id, digest) ==
    LET result == parseInt16(MachineIdString(g.ITEM_ID_machine_id))
        n      == IF id.type # "undefined" THEN ToNumber(id)
                  ELSE ToNumber(StringV(<<"0", "x">> \o digest))
        bad    == isNaN(n)
    IN  IF bad THEN [g |-> g, ret |-> NaN, thrown |-> TRUE, id |-> n]
        ELSE [g      |-> [g EXCEPT !.ITEM_ID_machine_id =
                                       StringV(SliceLast(<<"0", "0">> \o toString16(n), 2))],
              ret    |-> result,
              thrown |-> FALSE,
              id     |-> n]

\* setMachineId keeping one character of the hex form, .slice(-1).
setMachineId_OneNibble(g, id, digest) ==
    LET result == parseInt16(MachineIdString(g.ITEM_ID_machine_id))
        n      == IF id.type # "undefined" THEN ToNumber(id)
                  ELSE ToNumber(StringV(<<"0", "x">> \o digest))
        bad    == isNaN(n) \/ Less(n, Num(0)) \/ Less(Num(255), n)
    IN  IF bad THEN [g |-> g, ret |-> NaN, thrown |-> TRUE, id |-> n]
        ELSE [g      |-> [g EXCEPT !.ITEM_ID_machine_id =
                                       StringV(SliceLast(<<"0", "0">> \o toString16(n), 1))],
              ret    |-> result,
              thrown |-> FALSE,
              id     |-> n]

\* setMachineId that starts the counter over when it stores a machine ID.
setMachineId_ResetsCounter(g, id, digest) ==
    LET result == parseInt16(MachineIdString(g.ITEM_ID_machine_id))
        n      == IF id.type # "undefined" THEN ToNumber(id)
                  ELSE ToNumber(StringV(<<"0", "x">> \o digest))
        bad    == isNaN(n) \/ Less(n, Num(0)) \/ Less(Num(255), n)
    IN  IF bad THEN [g |-> g, ret |-> NaN, thrown |-> TRUE, id |-> n]
        ELSE [g      |-> [ITEM_ID_counter    |-> 0,
                          ITEM_ID_machine_id |->
                              StringV(SliceLast(<<"0", "0">> \o toString16(n), 2))],
              ret    |-> result,
              thrown |-> FALSE,
              id     |-> n]

\* setMachineId(id), digest being the first two characters of the MD5 hex
\* digest of the hostname: [g, ret, thrown, id |-> the Number validated].
setMachineId(g, id, digest) ==
    LET result == parseInt16(MachineIdString(g.ITEM_ID_machine_id))
        n      == IF id.type # "undefined" THEN ToNumber(id)
                  ELSE ToNumber(StringV(<<"0", "x">> \o digest))
        bad    == isNaN(n) \/ Less(n, Num(0)) \/ Less(Num(255), n)
    IN  IF bad THEN [g |-> g, ret |-> NaN, thrown |-> TRUE, id |-> n]
        ELSE [g      |-> [g EXCEPT !.ITEM_ID_machine_id =
                                       StringV(SliceLast(<<"0", "0">> \o toString16(n), 2))],
              ret    |-> result,
              thrown |-> FALSE,
              id     |-> n]


RECURSIVE DecimalString(_)
DecimalString(n) == IF n < 10 THEN <<HexChars[n + 1]>>
                    ELSE Append(DecimalString(n \div 10), HexChars[(n % 10) + 1])

\* arg1 + '': the string of a value.  A Number is written in decimal (whole
\* Numbers below 2^28 here); an identifier is written by its valueOf().
ToStringV(v) ==
    CASE v.type = "string"    -> v.s
      [] v.type = "number"    -> IF v.n.nan THEN <<"N", "a", "N">>
                                 ELSE (IF v.n.neg THEN <<"-">> ELSE << >>)
                                      \o DecimalString(DigitsToInt(v.n.int))
      [] v.type = "ItemId"    -> stringify(v.low_, v.high_)
      [] v.type = "undefined" -> <<"u", "n", "d", "e", "f", "i", "n", "e", "d">>
      [] v.type = "null"      -> <<"n", "u", "l", "l">>
      [] OTHER                -> <<"[", "o", "b", "j", "e", "c", "t", " ",
                                   "O", "b", "j", "e", "c", "t", "]">>

\* Number.isNaN(v): true of the Number NaN only.
NumberIsNaN(v) == v.type = "number" /\ v.n.nan

\* The fields of an entry that holds no identifier (the constructor threw).
NoId == [low_ |-> 0, high_ |-> 0]

\* new ItemId(...args) while the clock reads now:
\* [g |-> the variables after, str |-> the string parsed (one-argument and
\* empty forms), thrown, obj |-> the identifier built].
ItemId(g, args, now) ==
    IF Len(args) < 2
    THEN LET arg1 == IF Len(args) = 0 THEN Undefined ELSE args[1]
             mint == newId(g, now)
             id   == IF Truthy(arg1) THEN ToStringV(arg1) ELSE mint.ret
             low  == parseInt16(SliceLast(id, 8))
             high == parseInt16(SliceBetween(id, 16, 8))
             bad  == isNaN(low) \/ isNaN(high)
         IN  [g      |-> IF Truthy(arg1) THEN g ELSE mint.g,
              str    |-> id,
              thrown |-> bad,
              obj    |-> IF bad THEN NoId ELSE Long(low, high)]
    ELSE LET low  == args[1]
             high == args[2]
             bad  == NumberIsNaN(low) \/ NumberIsNaN(high)
         IN  [g      |-> g,
              str    |-> << >>,
              thrown |-> bad,
              obj    |-> IF bad THEN NoId ELSE Long(ToNumber(low), ToNumber(high))]

\* 0xfffffffffff
MaxTimestamp == MkNum(FALSE, [i \in 1..11 |-> 15], << >>)

\* createFromTime(timestamp)
createFromTime(g, timestamp, now) ==
    IF \/ timestamp.type # "number"
       \/ Less(timestamp.n, Num(0))
       \/ Less(MaxTimestamp, timestamp.n)
    THEN [g |-> g, str |-> << >>, thrown |-> TRUE, obj |-> NoId]
    ELSE ItemId(g,
                <<StringV(SliceLast([i \in 1..11 |-> "0"] \o toString16(timestamp.n), 11)
                          \o [i \in 1..5 |-> "0"])>>,
                now)

\* A Date whose getTime() is time (NaN for an invalid Date).
DateV(time) == [type |-> "Date", time |-> time]

\* createFromDate without the instanceof test: a value that is not a Date
\* is taken for the epoch.
createFromDate_NoTypeTest(g, date, now) ==
    createFromTime(g, NumberV(IF date.type = "Date" THEN date.time ELSE Num(0)), now)

\* createFromDate(date)
createFromDate(g, date, now) ==
    IF date.type # "Date"
    THEN [g |-> g, str |-> << >>, thrown |-> TRUE, obj |-> NoId]
    ELSE createFromTime(g, NumberV(date.time), now)


(***************************************************************************)
(* The state machine                                                       *)
(*                                                                         *)
(* pc[p]    where process p is: "load" while the module is being loaded    *)
(*          (the variables are initialised, setMachineId() at the end of   *)
(*          the file has not run), then "ready";                           *)
(* gens[p]  the unit-global variables of process p, with the digest of its *)
(*          hostname (fixed by the environment);                           *)
(* setTo[p] the Number the latest successful setMachineId call of p stored *)
(*          (history);                                                     *)
(* ids      the identifiers constructed so far, oldest first, each with    *)
(*          the call that made it (history; strings are kept joined);      *)
(* last     the latest call and its outcome: the Number returned (ret) or  *)
(*          the string the constructor parsed (str);                       *)
(* minted[p] the number of newId() calls of process p so far (history).    *)
(***************************************************************************)
VARIABLES pc, gens, setTo, ids, last, minted

vars == <<pc, gens, setTo, ids, last, minted>>

\* Bounds of the model: identifiers minted, identifiers built from values.
MaxMints == 2

MaxValues == 2

\* Clock readings (Date.now()): 0x14fb3ee4000 and 0x14fb3ee4001 (2015-09-09)
\* and 2^44 (the year 2527).
ClockA     == MkNum(FALSE, <<1, 4, 15, 11, 3, 14, 14, 4, 0, 0, 0>>, << >>)
ClockB     == MkNum(FALSE, <<1, 4, 15, 11, 3, 14, 14, 4, 0, 0, 1>>, << >>)
ClockOver  == MkNum(FALSE, <<1, 0, 0, 0, 0, 0, 0, 0, 0, 0, 0, 0>>, << >>)
Clocks     == {ClockA, ClockB, ClockOver}

\* Seeds of ITEM_ID_counter: parseInt(Math.random() * 0xfff, 10) is any of
\* 0..4094; an ordinary one and the largest.
Seeds == {15, 4094}

\* First two characters of the MD5 hex digest of the hostname.
HostDigests == {<<"3", "d">>}

Half    == MkNum(FALSE, <<0>>, <<8>>)
Quarter == MkNum(FALSE, <<0>>, <<4>>)

\* Arguments given to setMachineId.
ValidMachineIdArgs   == {NumberV(Num(17)), NumberV(Num(255)), NumberV(Half)}
InvalidMachineIdArgs == {NumberV(Num(-1)), NumberV(Num(256)), NumberV(NaN),
                         StringV(<<"n", "o", "t", " ", "a", " ", "n", "u", "m", "b", "e", "r">>),
                         PlainObject}
MachineIdArgs == {Undefined} \cup ValidMachineIdArgs \cup InvalidMachineIdArgs

NeverSet == [set |-> FALSE, id |-> NaN]

NoCall == [op |-> "none", p |-> 0, thrown |-> FALSE, ret |-> NaN, str |-> << >>]

RECURSIVE Join(_)
Join(cs) == IF Len(cs) = 0 THEN "" ELSE cs[1] \o Join(Tail(cs))

\* The module's variable initialisers, for each process of procs.
InitOf(procs) ==
    /\ pc = [p \in procs |-> "load"]
    /\ gens \in [procs -> [ITEM_ID_counter    : Seeds,
                           ITEM_ID_machine_id : {Null},
                           digest             : HostDigests]]
    /\ setTo = [p \in procs |-> NeverSet]
    /\ ids = << >>
    /\ last = NoCall
    /\ minted = [p \in procs |-> 0]

Init == InitOf({1})

\* The variables of a process without the environment's part.
Globals(g) == [ITEM_ID_counter |-> g.ITEM_ID_counter, ITEM_ID_machine_id |-> g.ITEM_ID_machine_id]

\* The variables of process p become g; a call that advanced the counter
\* was a call of newId().
SetGlobals(p, g) ==
    /\ gens' = [gens EXCEPT ![p] = [ITEM_ID_counter    |-> g.ITEM_ID_counter,
                                    ITEM_ID_machine_id |-> g.ITEM_ID_machine_id,
                                    digest             |-> gens[p].digest]]
    /\ minted' = [minted EXCEPT ![p] = IF g.ITEM_ID_counter = gens[p].ITEM_ID_counter
                                       THEN @ ELSE @ + 1]

\* A call setMachineId(v) in process p.
CallSetMachineId(p, v) ==
    LET r == setMachineId(Globals(gens[p]), v, gens[p].digest)
    IN  /\ SetGlobals(p, r.g)
        /\ setTo' = IF r.thrown THEN setTo ELSE [setTo EXCEPT ![p] = [set |-> TRUE, id |-> r.id]]
        /\ last' = [op |-> "setMachineId", p |-> p, thrown |-> r.thrown, ret |-> r.ret,
                    str |-> << >>]
        /\ UNCHANGED ids

\* The end of the module: setMachineId().
Load(p) ==
    /\ pc[p] = "load"
    /\ pc' = [pc EXCEPT ![p] = "ready"]
    /\ CallSetMachineId(p, Undefined)

SetMachineId(p, v) ==
    /\ pc[p] = "ready"
    /\ UNCHANGED pc
    /\ CallSetMachineId(p, v)

\* An argument as the history keeps it.
Brief(v) == IF v.type = "string" THEN [type |-> "string", text |-> Join(v.s)] ELSE v

\* The history entry of a call r of kind op in process p: args are the
\* arguments, now is the clock reading in hex ("" when the clock was not
\* read), str the string parsed, counter and machine_id the variables the
\* call left and found.
Entry(op, p, args, now, r) ==
    [op         |-> op,
     p          |-> p,
     args       |-> [i \in 1..Len(args) |-> Brief(args[i])],
     now        |-> Join(now),
     str        |-> Join(r.str),
     thrown     |-> r.thrown,
     obj        |-> r.obj,
     counter    |-> r.g.ITEM_ID_counter,
     machine_id |-> Join(MachineIdString(gens[p].ITEM_ID_machine_id)),
     setTo      |-> setTo[p]]

\* new ItemId() in process p while the clock reads now.
Mint(p, now) ==
    /\ pc[p] = "ready"
    /\ Len(ids) < MaxMints
    /\ LET r == ItemId(Globals(gens[p]), << >>, now)
       IN  /\ SetGlobals(p, r.g)
           /\ ids' = Append(ids, Entry("mint", p, << >>, toString16(now), r))
           /\ last' = [op |-> "ItemId", p |-> p, thrown |-> r.thrown, ret |-> NaN,
                       str |-> r.str]
    /\ UNCHANGED <<pc, setTo>>

DoLoad == \E p \in DOMAIN gens : Load(p)

DoSetMachineId == \E p \in DOMAIN gens, v \in MachineIdArgs : SetMachineId(p, v)

DoMint == \E p \in DOMAIN gens, now \in Clocks : Mint(p, now)

Next == DoLoad \/ DoSetMachineId \/ DoMint

\* One process: the module is loaded, then machine IDs are set and
\* identifiers minted in any order.
Spec == Init /\ [][Next]_vars


(***************************************************************************)
(* Identifiers built from values.  The module is loaded; the constructor   *)
(* and the boundary builders are applied to sample arguments.              *)
(***************************************************************************)
\* The state the module's loading leaves.
InitLoaded(procs, seeds) ==
    /\ pc = [p \in procs |-> "ready"]
    /\ gens \in {f \in [procs -> [ITEM_ID_counter    : seeds,
                                  ITEM_ID_machine_id : {StringV(d) : d \in HostDigests},
                                  digest             : HostDigests]] :
                    \A p \in procs : f[p].ITEM_ID_machine_id.s = f[p].digest}
    /\ setTo = [p \in procs |->
                   [set |-> TRUE, id |-> ToNumber(StringV(<<"0", "x">> \o gens[p].digest))]]
    /\ ids = << >>
    /\ last = NoCall
    /\ minted = [p \in procs |-> 0]

\* 16-character strings given to the constructor.
HexStrings ==
    { <<"1", "4", "f", "b", "3", "e", "e", "4", "b", "7", "5", "d", "c", "e", "3", "d">>,
      <<"1", "4", "F", "B", "3", "E", "E", "4", "B", "7", "5", "D", "C", "E", "3", "D">>,
      <<"1", "4", "f", "b", "3", "e", "e", "4", "b", "7", "5", "f", "f", "f", "f", "f">>,
      <<"1", "5", "0", "8", "2", "8", "b", "a", "0", "0", "0", "0", "0", "0", "0", "0">>,
      <<"0", "0", "0", "0", "0", "0", "0", "0", "0", "0", "0", "0", "0", "0", "0", "0">>,
      <<"0", "f", "f", "f", "f", "f", "f", "f", "0", "f", "f", "f", "f", "f", "f", "f">>,
      <<"7", "f", "f", "f", "f", "f", "f", "f", "8", "0", "0", "0", "0", "0", "0", "0">>,
      <<"f", "f", "f", "f", "f", "f", "f", "f", "f", "f", "f", "f", "f", "f", "f", "f">> }

\* Other strings given to the constructor: the decimal form of
\* 0x14fb3ee4b75dce3d, and 16-character strings with a character that is no
\* hex digit, at the end, inside a half and at the start of each half.
OtherStrings ==
    { <<"1", "5", "1", "1", "8", "7", "1", "2", "5", "1", "9", "6", "2", "7", "7", "7", "1", "4", "9">>,
      <<"1", "4", "f", "b", "3", "e", "e", "4", "b", "7", "5", "d", "c", "e", "3", "g">>,
      <<"1", "4", "f", "b", "3", "x", "e", "4", "b", "7", "5", "d", "c", "e", "3", "d">>,
      <<"1", "4", "f", "b", "3", "e", "e", "4", "z", "7", "5", "d", "c", "e", "3", "d">>,
      <<"g", "4", "f", "b", "3", "e", "e", "4", "b", "7", "5", "d", "c", "e", "3", "d">> }

\* Signed 32-bit halves given to the two-argument constructor: 0, 0x1000000,
\* 0xfffffff, 0x7fffffff and, below 0, the stored forms of 0x80000001 and
\* 0xffffffff.
HalfValues == {0, 16777216, 268435455, 2147483647, -2147483647, -1}

\* Arguments given to createFromTime: 0, 0x14fb9478d5f (1441922517727),
\* 0x150828ba000 (2015-10-20), 0x14fb3ee4b76, 2^44 - 1, -1, 2^44, 1.5, NaN
\* and a string.
TimeArgs ==
    { NumberV(Num(0)),
      NumberV(MkNum(FALSE, <<1, 4, 15, 11, 9, 4, 7, 8, 13, 5, 15>>, << >>)),
      NumberV(MkNum(FALSE, <<1, 5, 0, 8, 2, 8, 11, 10, 0, 0, 0>>, << >>)),
      NumberV(MkNum(FALSE, <<1, 4, 15, 11, 3, 14, 14, 4, 11, 7, 6>>, << >>)),
      NumberV(MaxTimestamp),
      NumberV(Num(-1)),
      NumberV(ClockOver),
      NumberV(MkNum(FALSE, <<1>>, <<8>>)),
      NumberV(NaN),
      StringV(<<"1", "4", "4", "1", "9", "2", "2", "5", "1", "7", "7", "2", "7">>) }

\* Arguments given to createFromDate: Dates (one before 1970, one invalid)
\* and a plain object.
DateArgs ==
    { DateV(MkNum(FALSE, <<1, 5, 0, 8, 2, 8, 11, 10, 0, 0, 0>>, << >>)),
      DateV(Num(0)),
      DateV(Num(-1)),
      DateV(NaN),
      PlainObject }

\* The record of a constructor or builder call r in last.
CallOf(op, p, r) == [op |-> op, p |-> p, thrown |-> r.thrown, ret |-> NaN, str |-> r.str]

\* new ItemId(s) for a string s.
Parse(p, s) ==
    /\ Len(ids) < MaxValues
    /\ LET r == ItemId(Globals(gens[p]), <<StringV(s)>>, ClockA)
       IN  /\ SetGlobals(p, r.g)
           /\ ids' = Append(ids, Entry("parse", p, <<StringV(s)>>, << >>, r))
           /\ last' = CallOf("ItemId", p, r)
    /\ UNCHANGED <<pc, setTo>>

\* new ItemId(low, high) for two Numbers.
FromHalves(p, low, high) ==
    /\ Len(ids) < MaxValues
    /\ LET args == <<NumberV(Num(low)), NumberV(Num(high))>>
           r    == ItemId(Globals(gens[p]), args, ClockA)
       IN  /\ SetGlobals(p, r.g)
           /\ ids' = Append(ids, Entry("halves", p, args, << >>, r))
           /\ last' = CallOf("ItemId", p, r)
    /\ UNCHANGED <<pc, setTo>>

CreateFromTime(p, t) ==
    /\ Len(ids) < MaxValues
    /\ LET r == createFromTime(Globals(gens[p]), t, ClockA)
       IN  /\ SetGlobals(p, r.g)
           /\ ids' = Append(ids, Entry("createFromTime", p, <<t>>, << >>, r))
           /\ last' = CallOf("createFromTime", p, r)
    /\ UNCHANGED <<pc, setTo>>

CreateFromDate(p, d) ==
    /\ Len(ids) < MaxValues
    /\ LET r == createFromDate(Globals(gens[p]), d, ClockA)
       IN  /\ SetGlobals(p, r.g)
           /\ ids' = Append(ids, Entry("createFromDate", p, <<d>>, << >>, r))
           /\ last' = CallOf("createFromDate", p, r)
    /\ UNCHANGED <<pc, setTo>>

\* Pairs given to the two-argument constructor of which one value is no
\* number.
NotANumber == StringV(<<"n", "o", "t", " ", "a", " ", "n", "u", "m", "b", "e", "r">>)

PairArgs == { <<NotANumber, NumberV(Num(0))>>,
              <<NumberV(Num(0)), NotANumber>>,
              <<NumberV(NaN), NumberV(Num(0))>> }

\* new ItemId(low, high) for two values.
FromPair(p, args) ==
    /\ Len(ids) < MaxValues
    /\ LET r == ItemId(Globals(gens[p]), args, ClockA)
       IN  /\ SetGlobals(p, r.g)
           /\ ids' = Append(ids, Entry("pair", p, args, << >>, r))
           /\ last' = CallOf("ItemId", p, r)
    /\ UNCHANGED <<pc, setTo>>

DoFromPair == \E p \in DOMAIN gens, args \in PairArgs : FromPair(p, args)

\* new ItemId(x) for the identifier x built by the i-th call.
Clone(p, i) ==
    /\ Len(ids) < MaxValues
    /\ ~ids[i].thrown
    /\ LET args == <<ItemIdV(ids[i].obj)>>
           r    == ItemId(Globals(gens[p]), args, ClockA)
       IN  /\ SetGlobals(p, r.g)
           /\ ids' = Append(ids, Entry("clone", p, args, << >>, r))
           /\ last' = CallOf("ItemId", p, r)
    /\ UNCHANGED <<pc, setTo>>

DoParse == \E p \in DOMAIN gens, s \in HexStrings : Parse(p, s)

DoClone == \E p \in DOMAIN gens, i \in 1..Len(ids) : Clone(p, i)

DoParseOther == \E p \in DOMAIN gens, s \in OtherStrings : Parse(p, s)

DoFromHalves == \E p \in DOMAIN gens, low \in HalfValues, high \in HalfValues :
                    FromHalves(p, low, high)

DoCreateFromTime == \E p \in DOMAIN gens, t \in TimeArgs : CreateFromTime(p, t)

DoCreateFromDate == \E p \in DOMAIN gens, d \in DateArgs : CreateFromDate(p, d)

InitValue == InitLoaded({1}, {15})

NextValue ==
    \/ DoParse
    \/ DoParseOther
    \/ DoFromHalves
    \/ DoCreateFromTime
    \/ DoCreateFromDate
    \/ DoClone
    \/ DoFromPair

SpecValue == InitValue /\ [][NextValue]_vars

\* The boundary builders alone.
NextBoundary == DoCreateFromTime \/ DoCreateFromDate

SpecBoundary == InitValue /\ [][NextBoundary]_vars

(***************************************************************************)
(* Identifiers compared.  Up to MaxCompared identifiers are built from     *)
(* halves on both sides of the sign bit.                                   *)
(***************************************************************************)
MaxCompared == 3

\* Halves 0, 0x7fffffff and the stored forms of 0x80000001 and 0xffffffff.
OrderHalves == {0, 2147483647, -2147483647, -1}

\* new ItemId(low, high), one more identifier to compare.
FromHalvesCompared(p, low, high) ==
    /\ Len(ids) < MaxCompared
    /\ LET args == <<NumberV(Num(low)), NumberV(Num(high))>>
           r    == ItemId(Globals(gens[p]), args, ClockA)
       IN  /\ SetGlobals(p, r.g)
           /\ ids' = Append(ids, Entry("halves", p, args, << >>, r))
           /\ last' = CallOf("ItemId", p, r)
    /\ UNCHANGED <<pc, setTo>>

DoFromHalvesCompared == \E p \in DOMAIN gens, low \in OrderHalves, high \in OrderHalves :
                            FromHalvesCompared(p, low, high)

NextOrder == DoFromHalvesCompared

SpecOrder == InitValue /\ [][NextOrder]_vars

(***************************************************************************)
(* Two processes (two machines of a fleet), each with its own module       *)
(* variables, minting side by side.                                        *)
(***************************************************************************)
FleetMachineIdArgs == {NumberV(Num(17)), NumberV(Half), NumberV(Quarter)}

DoSetMachineIdFleet == \E p \in DOMAIN gens, v \in FleetMachineIdArgs : SetMachineId(p, v)

InitFleet == InitLoaded({1, 2}, {15})

NextFleet == DoSetMachineIdFleet \/ DoMint

SpecFleet == InitFleet /\ [][NextFleet]_vars


(***************************************************************************)
(* Properties of minting and of the machine ID (specification Spec)        *)
(***************************************************************************)
\* C1: the identifiers minted in a row by one process (at most MaxMints, far
\* fewer than 4096) are pairwise distinct, whatever the clock reads and
\* whatever setMachineId calls come between: their strings differ, they are
\* not equal() and compare() is not 0.
C1_MintsPairwiseDistinct ==
    \A i, j \in 1..Len(ids) :
        (/\ i < j
         /\ ids[i].op = "mint" /\ ids[j].op = "mint"
         /\ ids[i].p = ids[j].p
         /\ ~ids[i].thrown /\ ~ids[j].thrown)
        => /\ ids[i].str # ids[j].str
           /\ ~equal(ids[i].obj, ids[j].obj)
           /\ compare(ids[i].obj, ids[j].obj) # 0

\* C3: an identifier minted while the clock reads t, 2^40 <= t <= 2^44 - 1,
\* the stored machine ID being a whole number of 0..255, has getTimestamp()
\* = t, getCounterValue() = the counter after its increment and
\* getMachineId() = the stored machine ID.
C3_MintedFieldsReadBack ==
    \A i \in 1..Len(ids) :
        LET e == ids[i]
        IN  (/\ e.op = "mint"
             /\ e.now \in {Join(toString16(ClockA)), Join(toString16(ClockB))}
             /\ e.setTo.set
             /\ e.setTo.id.frac = << >>)
            => /\ ~e.thrown
               /\ Join(toString16(getTimestamp(e.obj))) = e.now
               /\ getCounterValue(e.obj) = e.counter
               /\ Num(getMachineId(e.obj)) = e.setTo.id

\* C4: after a successful setMachineId(m), m a whole number of 0..255, every
\* identifier minted until the next successful setMachineId has
\* getMachineId() = m, and no step changes an identifier made earlier.
C4_MintsCarryMachineId ==
    [][/\ \A i \in 1..Len(ids) : Len(ids') >= i /\ ids'[i] = ids[i]
       /\ \A i \in 1..Len(ids') :
              (/\ i > Len(ids)
               /\ ids'[i].op = "mint"
               /\ setTo[ids'[i].p].set
               /\ setTo[ids'[i].p].id.frac = << >>)
              => /\ ~ids'[i].thrown
                 /\ Num(getMachineId(ids'[i].obj)) = setTo[ids'[i].p].id]_vars

\* An identifier is minted after setMachineId(17), and again after a later
\* setMachineId(255), each reading back the ID stored at its minting.
C4_Witness ==
    /\ Len(ids) = 2
    /\ ids[1].op = "mint" /\ ids[2].op = "mint"
    /\ ids[1].setTo = [set |-> TRUE, id |-> Num(17)]
    /\ ids[2].setTo = [set |-> TRUE, id |-> Num(255)]
    /\ getMachineId(ids[1].obj) = 17
    /\ getMachineId(ids[2].obj) = 255

\* C5: a setMachineId call returns the machine ID stored just before it (the
\* value the latest earlier successful call set), and 0 when none was ever
\* set.
C5_ReturnsPreviousMachineId ==
    [][(last'.op = "setMachineId" /\ ~last'.thrown)
       => last'.ret = (IF setTo[last'.p].set THEN setTo[last'.p].id ELSE Num(0))]_vars

\* C6: setMachineId with an explicit value below 0, above 255 or not numeric
\* fails, and leaves the stored machine ID and the counter as they were.
C6_InvalidMachineIdRejected ==
    [][\A p \in DOMAIN gens, v \in InvalidMachineIdArgs :
           SetMachineId(p, v) => (last'.thrown /\ gens' = gens /\ setTo' = setTo)]_vars

\* A setMachineId call has failed after an explicit machine ID was stored.
C6_Witness ==
    /\ last.op = "setMachineId"
    /\ last.thrown
    /\ gens[last.p].ITEM_ID_machine_id = StringV(<<"1", "1">>)

\* C9: every string newId() returns is exactly 16 hexadecimal characters,
\* whatever the clock reading, the counter and the stored machine ID (stated
\* here of the clock readings below 2^44, whose hex form is 11 digits).
C9_MintedStringIsSixteenHex ==
    \A i \in 1..Len(ids) :
        (ids[i].op = "mint" /\ ids[i].now # Join(toString16(ClockOver)))
        => (last.op = "ItemId" /\ i = Len(ids)
            => (Len(last.str) = 16 /\ test(last.str)))


(***************************************************************************)
(* Properties of the hex form and of the fields (specification SpecValue)  *)
(***************************************************************************)
\* C7: for every string s of exactly 16 hexadecimal digits, in either case,
\* the hex form of the identifier parsed from s (valueOf(), toJSON(),
\* toString()) is s in lower case.
C7_HexRoundTrip ==
    (last.op = "ItemId" /\ test(last.str))
    => LET id == ids[Len(ids)].obj
       IN  /\ ~last.thrown
           /\ valueOf(id) = toLowerCase(last.str)
           /\ toJSON(id) = toLowerCase(last.str)
           /\ toString(id) = toLowerCase(last.str)

\* C8: for every pair of stored halves the hex form is exactly 16 lower-case
\* hex characters, 8 zero-padded digits of the unsigned high half then 8 of
\* the unsigned low half; createFromDate(2015-10-20) gives
\* "150828ba00000000".
C8_HexFormIsSixteenDigits ==
    \A i \in 1..Len(ids) :
        ~ids[i].thrown
        => LET id == ids[i].obj
           IN  /\ Len(valueOf(id)) = 16
               /\ valueOf(id) = [k \in 1..8 |-> HexChars[PadLeft(Unsigned(id.high_).int, 8)[k] + 1]]
                                \o [k \in 1..8 |-> HexChars[PadLeft(Unsigned(id.low_).int, 8)[k] + 1]]

\* C10: for every identifier getTimestamp() * 2^20 + getCounterValue() * 2^8
\* + getMachineId() is the unsigned 64-bit value unsigned(high) * 2^32 +
\* unsigned(low), with getTimestamp() in 0..2^44 - 1, getCounterValue() in
\* 0..4095 and getMachineId() in 0..255: the 16 hex digits of the value are
\* the 11 of the timestamp, the 3 of the counter and the 2 of the machine ID.
C10_FieldsRebuildValue ==
    \A i \in 1..Len(ids) :
        ~ids[i].thrown
        => LET id == ids[i].obj
               ts == getTimestamp(id)
           IN  /\ ~Less(MaxTimestamp, ts)
               /\ getCounterValue(id) \in 0..4095
               /\ getMachineId(id) \in 0..255
               /\ PadLeft(ts.int, 11) \o PadLeft(NatDigits(getCounterValue(id)), 3)
                      \o PadLeft(NatDigits(getMachineId(id)), 2)
                  = PadLeft(Unsigned(id.high_).int, 8) \o PadLeft(Unsigned(id.low_).int, 8)

(***************************************************************************)
(* Two generators (specification SpecFleet)                                *)
(***************************************************************************)
\* C2: two generators whose stored machine IDs differ never mint the same
\* identifier, whatever the clocks read and the counters hold.
C2_DistinctAcrossMachines ==
    \A i, j \in 1..Len(ids) :
        (/\ ids[i].op = "mint" /\ ids[j].op = "mint"
         /\ ids[i].p # ids[j].p
         /\ ~ids[i].thrown /\ ~ids[j].thrown
         /\ ids[i].machine_id # ids[j].machine_id)
        => ~equal(ids[i].obj, ids[j].obj)


(***************************************************************************)
(* Properties of the order (specification SpecOrder)                       *)
(***************************************************************************)
\* C11: for all identifiers a and b, a.compare(b) is the sign of U(a) - U(b),
\* U being the unsigned 64-bit magnitude (a half stored below 0 counts as
\* value + 2^32); so compare(x, x) = 0, compare(a, b) = -compare(b, a),
\* compare is transitive, and compare(a, b) = 0 exactly when a.equal(b).
\* Each pair and each triple is examined in the state in which the last of
\* its identifiers has just been built.
C11_CompareIsUnsignedOrder ==
    LET U(x) == PadLeft(Unsigned(x.high_).int, 8) \o PadLeft(Unsigned(x.low_).int, 8)
        sign(x, y) == IF DigitsLess(U(x), U(y)) THEN -1
                      ELSE IF DigitsLess(U(y), U(x)) THEN 1 ELSE 0
        n == Len(ids)
    IN  \A i, j \in 1..n :
            LET a  == ids[i].obj
                b  == ids[j].obj
                ab == compare(a, b)
            IN  /\ (i = n \/ j = n)
                   => /\ ab \in {-1, 0, 1}
                      /\ ab = sign(a, b)
                      /\ i = j => ab = 0
                      /\ ab = -compare(b, a)
                      /\ (ab = 0) <=> equal(a, b)
                /\ ab = -1
                   => \A k \in 1..n :
                          ((i = n \/ j = n \/ k = n) /\ compare(b, ids[k].obj) = -1)
                          => compare(a, ids[k].obj) = -1

\* Three identifiers in ascending order whose halves lie on both sides of the
\* sign bit: 0x7fffffff_ffffffff < 0x80000001_00000000 < 0xffffffff_7fffffff.
C11_Witness ==
    /\ Len(ids) = 3
    /\ ids[1].obj = [low_ |-> -1, high_ |-> 2147483647]
    /\ ids[2].obj = [low_ |-> 0, high_ |-> -2147483647]
    /\ ids[3].obj = [low_ |-> 2147483647, high_ |-> -1]
    /\ compare(ids[1].obj, ids[2].obj) = -1
    /\ compare(ids[2].obj, ids[3].obj) = -1
    /\ compare(ids[1].obj, ids[3].obj) = -1


\* C12: identifiers sort chronologically: a.compare(b) = -1 whenever
\* a.getTimestamp() < b.getTimestamp(); so, the clock not going back and
\* staying below 2^44, an identifier minted in a later millisecond compares
\* greater than every identifier minted before it, whatever the counters and
\* the machine IDs (specification Spec).
C12_SortsChronologically ==
    \A i, j \in 1..Len(ids) :
        (~ids[i].thrown /\ ~ids[j].thrown)
        => /\ Less(getTimestamp(ids[i].obj), getTimestamp(ids[j].obj))
              => compare(ids[i].obj, ids[j].obj) = -1
           /\ (/\ i < j
               /\ ids[i].op = "mint" /\ ids[j].op = "mint"
               /\ ids[i].now = Join(toString16(ClockA))
               /\ ids[j].now = Join(toString16(ClockB)))
              => /\ compare(ids[i].obj, ids[j].obj) = -1
                 /\ compare(ids[j].obj, ids[i].obj) = 1


(***************************************************************************)
(* Properties of comparison, builders and constructor (specification       *)
(* SpecValue)                                                              *)
(***************************************************************************)
\* The sign of the C function strcmp() on two strings of hex digits, whose
\* characters order as their digit values do.
RECURSIVE strcmp(_, _)
strcmp(s, t) ==
    IF Len(s) = 0 /\ Len(t) = 0 THEN 0
    ELSE IF Len(s) = 0 THEN -1
    ELSE IF Len(t) = 0 THEN 1
    ELSE IF s[1] = t[1] THEN strcmp(Tail(s), Tail(t))
    ELSE IF DigitValue(s[1]) < DigitValue(t[1]) THEN -1 ELSE 1

\* C13: compare is a lexicographical, strcmp-like comparison: for all
\* identifiers a and b the sign of a.compare(b) is the sign of the
\* character-wise comparison of a.toString() and b.toString().
C13_CompareIsStrcmp ==
    \A i, j \in 1..Len(ids) :
        (~ids[i].thrown /\ ~ids[j].thrown)
        => compare(ids[i].obj, ids[j].obj) = strcmp(toString(ids[i].obj), toString(ids[j].obj))


\* C14: createFromTime(t) succeeds exactly when t is a number with
\* 0 <= t <= 2^44 - 1, and its result then has getTimestamp() = t,
\* getCounterValue() = 0 and getMachineId() = 0; it fails for t < 0, for
\* t > 2^44 - 1 and for a value that is not a number.
C14_CreateFromTime ==
    \A i \in 1..Len(ids) :
        ids[i].op = "createFromTime"
        => LET t       == ids[i].args[1]
               inRange == /\ t.type = "number"
                          /\ ~t.n.nan
                          /\ ~Less(t.n, Num(0))
                          /\ ~Less(MaxTimestamp, t.n)
           IN  /\ ids[i].thrown <=> ~inRange
               /\ ~ids[i].thrown
                  => /\ getTimestamp(ids[i].obj) = t.n
                     /\ getCounterValue(ids[i].obj) = 0
                     /\ getMachineId(ids[i].obj) = 0


\* C15: createFromTime(t) is the least identifier of its millisecond:
\* createFromTime(t).compare(x) <= 0 for every identifier x with
\* x.getTimestamp() = t, and createFromTime(t).compare(y) = 1 for every
\* identifier y with y.getTimestamp() < t (t a whole number).
C15_CreateFromTimeIsMinimum ==
    \A i, j \in 1..Len(ids) :
        (/\ ids[i].op = "createFromTime"
         /\ ~ids[i].thrown /\ ~ids[j].thrown
         /\ ids[i].args[1].n.frac = << >>)
        => LET t == ids[i].args[1].n
               b == ids[i].obj
               x == ids[j].obj
           IN  /\ getTimestamp(x) = t => compare(b, x) <= 0
               /\ Less(getTimestamp(x), t) => compare(b, x) = 1


(***************************************************************************)
(* Properties of createFromDate (specification SpecBoundary)               *)
(***************************************************************************)
\* C16: createFromDate(d) fails unless d is a valid Date (a value that is
\* not a Date and an invalid Date both fail), and for a valid Date it does
\* what createFromTime(d.getTime()) does: both fail, or both return equal
\* identifiers.
C16_CreateFromDate ==
    \A i \in 1..Len(ids) :
        ids[i].op = "createFromDate"
        => LET d == ids[i].args[1]
           IN  /\ d.type # "Date" => ids[i].thrown
               /\ (d.type = "Date" /\ d.time.nan) => ids[i].thrown
               /\ (d.type = "Date" /\ ~d.time.nan)
                  => \A j \in 1..Len(ids) :
                         (ids[j].op = "createFromTime" /\ ids[j].args[1] = NumberV(d.time))
                         => /\ ids[i].thrown = ids[j].thrown
                            /\ equal(ids[i].obj, ids[j].obj)
                            /\ ids[i].str = ids[j].str

\* createFromDate(2015-10-20) and createFromTime(0x150828ba000) have both
\* returned the identifier with halves 0x150828ba and 0.
C16_Witness ==
    /\ Len(ids) = 2
    /\ ids[1].op = "createFromDate" /\ ids[2].op = "createFromTime"
    /\ ids[1].args[1].type = "Date"
    /\ ids[2].args[1] = NumberV(ids[1].args[1].time)
    /\ ~ids[1].thrown /\ ~ids[2].thrown
    /\ ids[1].obj = [low_ |-> 0, high_ |-> 352856250]
    /\ equal(ids[1].obj, ids[2].obj)


(***************************************************************************)
(* Properties of the constructor (specification SpecValue)                 *)
(***************************************************************************)
\* C17: the constructor parses a string of decimal digits that is not 16
\* characters long as a base-10 64-bit integer and stores the halves of that
\* integer: new ItemId('1511871251962777149') has the halves of
\* new ItemId('14fb3ee4b75dce3d'), counter 3534 and machine ID 61.
C17_DecimalStringParsed ==
    (/\ last.op = "ItemId"
     /\ Len(ids) > 0
     /\ ids[Len(ids)].op = "parse"
     /\ Len(last.str) # 16
     /\ \A k \in 1..Len(last.str) : IsDecimalChar(last.str[k]))
    => LET id == ids[Len(ids)].obj
       IN  /\ ~last.thrown
           /\ equal(id, fromString10(last.str))
           /\ equal(id, [low_ |-> -1218589123, high_ |-> 352009956])
           /\ getCounterValue(id) = 3534
           /\ getMachineId(id) = 61


\* C18: constructing an identifier from another identifier copies it: for
\* every identifier x, also one with a half that is 0 or below 0x10000000,
\* new ItemId(x) succeeds and new ItemId(x).equal(x).
C18_CloneCopies ==
    \A i \in 1..Len(ids) :
        ids[i].op = "clone"
        => /\ ~ids[i].thrown
           /\ equal(ids[i].obj, ids[i].args[1])


\* C19: the two-argument constructor fails whenever one of its arguments
\* cannot be coerced to a number, as in ('not a number', 0) and
\* (0, 'not a number'), and then produces no identifier.
C19_PairRejected ==
    \A i \in 1..Len(ids) :
        (/\ ids[i].op = "pair"
         /\ \E k \in 1..2 : \/ ids[i].args[k] = Brief(NotANumber)
                            \/ ids[i].args[k] = NumberV(NaN))
        => ids[i].thrown


\* C20: constructing from a malformed hex string fails: for every string s
\* of 16 characters of which at least one is no hex digit (test(s) is
\* false), new ItemId(s) throws, wherever in s that character is.
C20_MalformedHexRejected ==
    (/\ last.op = "ItemId"
     /\ Len(ids) > 0
     /\ ids[Len(ids)].op = "parse"
     /\ Len(last.str) = 16
     /\ ~test(last.str))
    => last.thrown

(***************************************************************************)
(* The functions called on strings, identifiers and Longs.  The module is  *)
(* loaded; identifiers are built from hex strings and the module's         *)
(* functions are called on sample arguments.                               *)
(***************************************************************************)
\* Strings given to ItemId.test besides HexStrings and OtherStrings: the
\* rejected ones of the test suite (15 characters, a letter past f, a
\* leading '-'), 16 characters with a leading '-', 17 hex digits, 16 hex
\* digits after a space, and the empty string.
TestStrings ==
    { <<"4", "f", "b", "3", "e", "e", "4", "b", "7", "5", "d", "c", "e", "3", "d">>,
      <<"g", "4", "f", "b", "3", "e", "e", "4", "b", "7", "5", "d", "c", "e", "3">>,
      <<"-", "4", "f", "b", "3", "e", "e", "4", "b", "7", "5", "d", "c", "e", "3">>,
      <<"-", "4", "f", "b", "3", "e", "e", "4", "b", "7", "5", "d", "c", "e", "3", "d">>,
      <<"1", "4", "f", "b", "3", "e", "e", "4", "b", "7", "5", "d", "c", "e", "3", "d", "0">>,
      <<" ", "1", "4", "f", "b", "3", "e", "e", "4", "b", "7", "5", "d", "c", "e", "3", "d">>,
      << >> }

\* ItemId.test(s) in process p.
Test(p, s) ==
    /\ last' = [op |-> "test", p |-> p, thrown |-> FALSE, ret |-> test(s), str |-> s]
    /\ UNCHANGED <<pc, gens, setTo, ids, minted>>

DoTest == \E p \in DOMAIN gens, s \in HexStrings \cup OtherStrings \cup TestStrings : Test(p, s)

\* The digit characters of a numeral in a radix up to 36.
RadixChars == HexChars \o <<"g", "h", "i", "j", "k", "l", "m", "n", "o", "p",
                            "q", "r", "s", "t", "u", "v", "w", "x", "y", "z">>

\* The 16 hex digits of the 64-bit value of a Long, most significant first.
Digits64(id) == PadLeft(Unsigned(id.high_).int, 8) \o PadLeft(Unsigned(id.low_).int, 8)

\* Long.prototype.negate, on the 16 hex digits: the two's complement.
negate(d) == AddDigits([i \in 1..Len(d) |-> 15 - d[i]], [i \in 1..Len(d) |-> 0], 1)

\* The quotient (hex digits) and the remainder of the hex digits d, after
\* the carry c, divided by n.
RECURSIVE DivMod(_, _, _)
DivMod(d, n, c) ==
    IF Len(d) = 0 THEN [q |-> << >>, r |-> c]
    ELSE LET v    == 16 * c + d[1]
             rest == DivMod(Tail(d), n, v % n)
         IN  [q |-> <<v \div n>> \o rest.q, r |-> rest.r]

\* The digits in radix n of the whole number with hex digits d (none for 0).
RECURSIVE RadixDigits(_, _)
RadixDigits(d, n) ==
    IF StripZeros(d) = <<0>> THEN << >>
    ELSE LET dm == DivMod(d, n, 0)
         IN  Append(RadixDigits(StripZeros(dm.q), n), dm.r)

\* The toString of the Long library, which the module keeps as
\* oldLongToString, for a radix in 2..36: '0' for zero, else the numeral of
\* the magnitude of the signed 64-bit value, after '-' when it is negative.
oldLongToString(id, radix) ==
    LET d   == Digits64(id)
        neg == id.high_ < 0
        mag == RadixDigits(IF neg THEN negate(d) ELSE d, radix)
    IN  IF mag = << >> THEN <<"0">>
        ELSE (IF neg THEN <<"-">> ELSE << >>) \o [i \in 1..Len(mag) |-> RadixChars[mag[i] + 1]]

\* ItemId.prototype.toString(...args), args being empty or one radix.
toStringArgs(id, args) ==
    IF Len(args) < 1 THEN stringify(id.low_, id.high_) ELSE oldLongToString(id, args[1])

\* Radixes given to toString.
Radixes == {2, 10, 16, 32, 36}

\* x.toString(...args) in process p for the identifier x built by the i-th
\* call: last keeps the call (on, args) and the string returned (str).
CallToString(p, i, args) ==
    /\ ~ids[i].thrown
    /\ last' = [op |-> "toString", p |-> p, thrown |-> FALSE, ret |-> NaN,
                str |-> toStringArgs(ids[i].obj, args), on |-> i, args |-> args]
    /\ UNCHANGED <<pc, gens, setTo, ids, minted>>

DoToString == \E p \in DOMAIN gens, i \in 1..Len(ids),
                 args \in {<< >>} \cup {<<n>> : n \in Radixes} : CallToString(p, i, args)

NextCalls ==
    \/ DoParse
    \/ DoTest
    \/ DoToString

SpecCalls == InitValue /\ [][NextCalls]_vars

(***************************************************************************)
(* Properties of the functions called (specification SpecCalls)            *)
(***************************************************************************)
\* C21: ItemId.test(s) is true exactly when s has 16 characters and each of
\* them is one of 0-9, a-f, A-F; it is false for every other string (15
\* characters, 17 characters, a letter past f, a leading '-').
C21_TestIsSixteenHex ==
    last.op = "test"
        => (last.ret <=>
               /\ Len(last.str) = 16
               /\ \A k \in 1..Len(last.str) :
                      last.str[k] \in {"0", "1", "2", "3", "4", "5", "6", "7", "8", "9",
                                       "a", "b", "c", "d", "e", "f",
                                       "A", "B", "C", "D", "E", "F"})

\* test() has rejected a string of 17 hex digits.
C21_Witness ==
    /\ last.op = "test"
    /\ Len(last.str) = 17
    /\ \A k \in 1..17 : IsHexChar(last.str[k])
    /\ last.ret = FALSE

\* The hex digits of n * d + c, d being hex digits.
RECURSIVE MulAdd(_, _, _)
MulAdd(d, n, c) ==
    IF Len(d) = 0 THEN (IF c = 0 THEN << >> ELSE NatDigits(c))
    ELSE LET v == d[Len(d)] * n + c
         IN  Append(MulAdd(SubSeq(d, 1, Len(d) - 1), n, v \div 16), v % 16)

\* The hex digits of the whole number the numeral s writes in radix n, read
\* from the left after the digits acc.
RECURSIVE FromRadix(_, _, _)
FromRadix(s, n, acc) ==
    IF Len(s) = 0 THEN acc
    ELSE LET a == MulAdd(acc, n, (CHOOSE k \in 1..36 : RadixChars[k] = s[1]) - 1)
         IN  IF Len(a) < 0 THEN acc ELSE FromRadix(Tail(s), n, a)

\* C22: x.toString(N), N in 2..36, returns the numeral in base N of the
\* 64-bit two's-complement value of x, without zero padding (a '-' and the
\* magnitude when the value is negative), while x.toString() returns the
\* 16-character hex form; toString(2) of '14fb3ee4b75dce3d' is its 61
\* binary digits and toString(32) is '19upusirlrjht'.
C22_ToStringRadix ==
    last.op = "toString" =>
        LET x == ids[last.on].obj
            s == last.str
        IN  IF last.args = << >>
            THEN Len(s) = 16 /\ test(s)
            ELSE LET n    == last.args[1]
                     neg  == s[1] = "-"
                     body == IF neg THEN Tail(s) ELSE s
                     v    == PadLeft(FromRadix(body, n, << >>), 16)
                 IN  /\ neg <=> x.high_ < 0
                     /\ Len(body) > 0
                     /\ body[1] = "0" => body = <<"0">>
                     /\ \A k \in 1..Len(body) :
                            \E j \in 1..n : RadixChars[j] = body[k]
                     /\ IF neg THEN AddDigits(v, Digits64(x), 0) = [k \in 1..16 |-> 0]
                        ELSE v = Digits64(x)
                     /\ (ids[last.on].str = "14fb3ee4b75dce3d" /\ n = 2)
                        => s = <<"1", "0", "1", "0", "0", "1", "1", "1", "1", "1", "0", "1", "1", "0", "0", "1",
                                "1", "1", "1", "1", "0", "1", "1", "1", "0", "0", "1", "0", "0", "1", "0", "1",
                                "1", "0", "1", "1", "1", "0", "1", "0", "1", "1", "1", "0", "1", "1", "1", "0",
                                "0", "1", "1", "1", "0", "0", "0", "1", "1", "1", "1", "0", "1">>
                     /\ (ids[last.on].str = "14fb3ee4b75dce3d" /\ n = 32)
                        => s = <<"1", "9", "u", "p", "u", "s", "i", "r", "l", "r", "j", "h", "t">>

(***************************************************************************)
(* Identifiers and strings made from Longs.  The module is loaded; the     *)
(* functions that take a Long are called on Longs, on Longs of which a     *)
(* half has been deleted and on a value that is no Long.                   *)
(***************************************************************************)
\* A Long passed as an argument; a deleted half reads as undefined.
LongV(low, high) == [type |-> "Long", low_ |-> low, high_ |-> high]

\* Whether a value is a Long with both halves.
IsCompleteLong(v) == v.type = "Long" /\ v.low_.type = "number" /\ v.high_.type = "number"

\* Longs with both halves: 0x14fb3ee4b75dce3d, 0, 0x150828ba00000000 and
\* 0xffffffffffffffff.
CompleteLongs ==
    { LongV(NumberV(Num(-1218588099)), NumberV(Num(352009956))),
      LongV(NumberV(Num(0)), NumberV(Num(0))),
      LongV(NumberV(Num(0)), NumberV(Num(352856250))),
      LongV(NumberV(Num(-1)), NumberV(Num(-1))) }

\* The first of them after delete of the high half and after delete of the
\* low half.
IncompleteLongs ==
    { LongV(NumberV(Num(-1218588099)), Undefined),
      LongV(Undefined, NumberV(Num(352009956))) }

\* createFromLong(long)
createFromLong(g, long, now) ==
    IF long.type # "Long"
    THEN [g |-> g, str |-> << >>, thrown |-> TRUE, obj |-> NoId]
    ELSE ItemId(g, <<long.low_, long.high_>>, now)

\* Long.prototype.newItemId
newItemId(g, long, now) == ItemId(g, <<long.low_, long.high_>>, now)

\* One half in stringify when it may be undefined: no comparison holds of
\* undefined, and (undefined + 0x100000000).toString(16) is 'NaN'.
HalfText(v) == IF v.type = "undefined" THEN <<"N", "a", "N">>
               ELSE HalfToString(ToInt32(v.n))

\* strFromLong(long): [thrown, str |-> the string returned].
strFromLong(long) ==
    IF long.type # "Long"
    THEN [thrown |-> TRUE, str |-> << >>]
    ELSE [thrown |-> FALSE, str |-> HalfText(long.high_) \o HalfText(long.low_)]

CreateFromLong(p, long) ==
    /\ Len(ids) < MaxValues
    /\ LET r == createFromLong(Globals(gens[p]), long, ClockA)
       IN  /\ SetGlobals(p, r.g)
           /\ ids' = Append(ids, Entry("createFromLong", p, <<long>>, << >>, r))
           /\ last' = CallOf("createFromLong", p, r)
    /\ UNCHANGED <<pc, setTo>>

NewItemId(p, long) ==
    /\ Len(ids) < MaxValues
    /\ LET r == newItemId(Globals(gens[p]), long, ClockA)
       IN  /\ SetGlobals(p, r.g)
           /\ ids' = Append(ids, Entry("newItemId", p, <<long>>, << >>, r))
           /\ last' = CallOf("newItemId", p, r)
    /\ UNCHANGED <<pc, setTo>>

\* strFromLong(long) in process p: last keeps the argument and the outcome.
StrFromLong(p, long) ==
    /\ LET r == strFromLong(long)
       IN  last' = [op |-> "strFromLong", p |-> p, thrown |-> r.thrown, ret |-> NaN,
                    str |-> r.str, args |-> <<long>>]
    /\ UNCHANGED <<pc, gens, setTo, ids, minted>>

DoCreateFromLong == \E p \in DOMAIN gens,
                       long \in CompleteLongs \cup IncompleteLongs \cup {PlainObject} :
                       CreateFromLong(p, long)

DoNewItemId == \E p \in DOMAIN gens, long \in CompleteLongs \cup IncompleteLongs :
                  NewItemId(p, long)

DoStrFromLong == \E p \in DOMAIN gens,
                    long \in CompleteLongs \cup IncompleteLongs \cup {PlainObject} :
                    StrFromLong(p, long)

NextLong == DoCreateFromLong \/ DoNewItemId \/ DoStrFromLong

SpecLong == InitValue /\ [][NextLong]_vars

(***************************************************************************)
(* Properties of the functions that take a Long (specification SpecLong)   *)
(***************************************************************************)
\* C23: createFromLong(L) and L.newItemId() return an identifier with the
\* halves of L, strFromLong(L) is the string createFromLong(L).valueOf()
\* gives, and createFromLong throws when its argument is not a complete
\* Long: a value that is no Long, or a Long of which the high or the low
\* half has been deleted.
C23_FromLong ==
    /\ \A i \in 1..Len(ids) :
           ids[i].op \in {"createFromLong", "newItemId"} =>
               LET long == ids[i].args[1]
               IN  IF IsCompleteLong(long)
                   THEN /\ ~ids[i].thrown
                        /\ ids[i].obj.low_ = ToInt32(long.low_.n)
                        /\ ids[i].obj.high_ = ToInt32(long.high_.n)
                   ELSE ids[i].op = "createFromLong" => ids[i].thrown
    /\ (last.op = "strFromLong" /\ IsCompleteLong(last.args[1])) =>
           /\ ~last.thrown
           /\ last.str = valueOf(createFromLong(Globals(gens[last.p]), last.args[1], ClockA).obj)

RandomSteps == 65536

\* The values parseInt(Math.random() * 0xfff, 10) takes: the whole part of
\* a product below 4095.
SeedValues == {(r * 4095) \div RandomSteps : r \in 0..(RandomSteps - 1)}

\* C25: ITEM_ID_counter is a whole number of 0..4095 in every reachable
\* state: it is seeded in 0..4095, every value of that range being a
\* possible seed, and no step takes it out of the range.
C25_CounterInRange ==
    /\ \A p \in DOMAIN gens : gens[p].ITEM_ID_counter \in 0..4095
    /\ \A c \in 0..4095 : c \in SeedValues

(***************************************************************************)
(* The counter wrapped.  One process mints more identifiers than the       *)
(* counter has values; ids keeps the first of them and the latest.         *)
(***************************************************************************)
MaxWrapMints == 4097

\* new ItemId() in process p while the clock reads now, the first
\* identifier minted being kept and the latest.
MintAgain(p, now) ==
    /\ pc[p] = "ready"
    /\ minted[p] < MaxWrapMints
    /\ LET r == ItemId(Globals(gens[p]), << >>, now)
           e == Entry("mint", p, << >>, toString16(now), r)
       IN  /\ SetGlobals(p, r.g)
           /\ ids' = IF Len(ids) < 2 THEN Append(ids, e) ELSE <<ids[1], e>>
           /\ last' = [op |-> "ItemId", p |-> p, thrown |-> r.thrown, ret |-> NaN,
                       str |-> r.str]
    /\ UNCHANGED <<pc, setTo>>

DoMintAgain == \E p \in DOMAIN gens, now \in {ClockA, ClockB} : MintAgain(p, now)

NextWrap == DoMintAgain

SpecWrap == InitValue /\ [][NextWrap]_vars

\* C26: the counter wraps silently: when a process has minted 4097
\* identifiers and the clock read at the last what it read at the first, the
\* stored machine ID being the same, the 4097th mint has succeeded and its
\* identifier is the first one again: the same string, equal() and
\* compare() 0.
C26_WrapRepeatsIdentifier ==
    (/\ minted[1] = 4097
     /\ ids[1].now = ids[2].now
     /\ ids[1].machine_id = ids[2].machine_id)
    => /\ ~ids[1].thrown /\ ~ids[2].thrown
       /\ ids[2].str = ids[1].str
       /\ equal(ids[2].obj, ids[1].obj)
       /\ compare(ids[2].obj, ids[1].obj) = 0

\* 4097 identifiers have been minted, the last at the clock reading of the
\* first.
C26_Witness ==
    /\ minted[1] = 4097
    /\ ids[1].op = "mint" /\ ids[2].op = "mint"
    /\ ids[1].now = ids[2].now
    /\ ids[1].machine_id = ids[2].machine_id
    /\ ids[2].counter = ids[1].counter

(***************************************************************************)
(* Properties of minting past the 44-bit clock (specification Spec)        *)
(***************************************************************************)
\* C27: when the clock reads more than 2^44 - 1 the string minted is longer
\* than 16 characters and the fields after the timestamp are shifted: the
\* identifier built from it no longer has both getCounterValue() = the
\* counter and getMachineId() = the stored machine ID.
C27_OverflowShiftsFields ==
    (/\ last.op = "ItemId"
     /\ Len(ids) > 0
     /\ ids[Len(ids)].op = "mint"
     /\ ids[Len(ids)].now = Join(toString16(ClockOver)))
    => LET e == ids[Len(ids)]
       IN  /\ Len(last.str) > 16
           /\ ~(/\ ~e.thrown
                /\ getCounterValue(e.obj) = e.counter
                /\ Num(getMachineId(e.obj)) = e.setTo.id)

(***************************************************************************)
(* Every operation of the module side by side.  After loading, machine     *)
(* IDs are set, identifiers are minted and built at the boundaries, and    *)
(* the functions that read identifiers and strings are called.             *)
(***************************************************************************)
\* The functions that read identifiers, called in process p on the
\* identifiers x and y built by the i-th and the j-th call: last keeps what
\* they returned.
Read(p, i, j) ==
    /\ ~ids[i].thrown
    /\ ~ids[j].thrown
    /\ LET x == ids[i].obj
           y == ids[j].obj
       IN  last' = [op              |-> "read",
                    p               |-> p,
                    thrown          |-> FALSE,
                    ret             |-> getTimestamp(x),
                    str             |-> valueOf(x),
                    compare         |-> compare(x, y),
                    equal           |-> equal(x, y),
                    getCounterValue |-> getCounterValue(x),
                    getMachineId    |-> getMachineId(x),
                    toJSON          |-> Join(toJSON(x)),
                    toString        |-> Join(toString(x)),
                    toMySQL         |-> Join(toMySQL(x)),
                    toPostgreSQL    |-> Join(toPostgreSQL(x))]
    /\ UNCHANGED <<pc, gens, setTo, ids, minted>>

\* setMachineId with a valid argument, with an invalid one and with none.
DoSetMachineIdFrame ==
    \E p \in DOMAIN gens, v \in {NumberV(Num(17)), NumberV(Num(256)), Undefined} :
        SetMachineId(p, v)

\* createFromTime(0x150828ba000)
DoCreateFromTimeFrame ==
    \E p \in DOMAIN gens,
       t \in {NumberV(MkNum(FALSE, <<1, 5, 0, 8, 2, 8, 11, 10, 0, 0, 0>>, << >>))} :
        CreateFromTime(p, t)

\* createFromDate(new Date(0))
DoCreateFromDateFrame == \E p \in DOMAIN gens, d \in {DateV(Num(0))} : CreateFromDate(p, d)

\* The newest identifier is read, and compared with each one.
DoRead == \E p \in DOMAIN gens, i \in {Len(ids)}, j \in 1..Len(ids) : Read(p, i, j)

DoTestFrame == \E p \in DOMAIN gens, s \in {s \in TestStrings : Len(s) = 17} : Test(p, s)

DoMintFrame == \E p \in DOMAIN gens, now \in {ClockA} : Mint(p, now)

InitFrame == InitLoaded({1}, {4094})

NextFrame ==
    \/ DoSetMachineIdFrame
    \/ DoMintFrame
    \/ DoCreateFromTimeFrame
    \/ DoCreateFromDateFrame
    \/ DoRead
    \/ DoTestFrame

SpecFrame == InitFrame /\ [][NextFrame]_vars

\* C28: the counter and the stored machine ID are the only state a call
\* changes, and each is changed by one operation only: setMachineId, whether
\* it succeeds or throws, never changes the counter, a mint never changes
\* the machine ID, and compare, equal, the accessors, the string
\* conversions, test, createFromTime and createFromDate change neither.
C28_OneWriterEach ==
    [][\A p \in DOMAIN gens :
          LET mint == /\ Len(ids') = Len(ids) + 1
                      /\ ids'[Len(ids')].op = "mint"
                      /\ ids'[Len(ids')].p = p
              set  == last'.op = "setMachineId" /\ last'.p = p
          IN  /\ set => gens'[p].ITEM_ID_counter = gens[p].ITEM_ID_counter
              /\ mint => gens'[p].ITEM_ID_machine_id = gens[p].ITEM_ID_machine_id
              /\ last'.op \in {"read", "test", "createFromTime", "createFromDate"}
                 => gens'[p] = gens[p]
              /\ gens'[p].ITEM_ID_counter # gens[p].ITEM_ID_counter => mint
              /\ gens'[p].ITEM_ID_machine_id # gens[p].ITEM_ID_machine_id
                 => (set /\ ~last'.thrown)
              /\ gens'[p].digest = gens[p].digest
      ]_vars

\* An identifier has been minted, another built by createFromTime, and then
\* setMachineId(17) has changed the machine ID: the counter is the one the
\* mint left.
C28_Witness ==
    /\ Len(ids) = 2
    /\ ids[1].op = "mint"
    /\ ids[2].op = "createFromTime" /\ ~ids[2].thrown
    /\ last.op = "setMachineId" /\ ~last.thrown
    /\ gens[1].ITEM_ID_machine_id = StringV(<<"1", "1">>)
    /\ ids[1].machine_id = "3d"
    /\ gens[1].ITEM_ID_counter = ids[1].counter
    /\ minted[1] = 1

(***************************************************************************)
(* The constructor's argument dispatch.  The module is loaded; the         *)
(* constructor is called with no argument, with one argument (a hex string *)
(* or a falsy value) and with two arguments, falsy ones among them.        *)
(***************************************************************************)
\* Falsy values given as the one argument: '', 0 and null.
FalsyArgs == {StringV(<< >>), NumberV(Num(0)), Null}

\* Pairs given as the two arguments, of falsy values and of halves.
FalsyPairs == { <<NumberV(Num(0)), NumberV(Num(0))>>,
                <<Null, StringV(<< >>)>>,
                <<NumberV(Num(-1218588099)), NumberV(Num(352009956))>> }

\* new ItemId(v) for one falsy value v, while the clock reads now.
FromFalsy(p, v, now) ==
    /\ Len(ids) < MaxValues
    /\ LET r == ItemId(Globals(gens[p]), <<v>>, now)
       IN  /\ SetGlobals(p, r.g)
           /\ ids' = Append(ids, Entry("falsy", p, <<v>>, toString16(now), r))
           /\ last' = CallOf("ItemId", p, r)
    /\ UNCHANGED <<pc, setTo>>

DoFromFalsy == \E p \in DOMAIN gens, v \in FalsyArgs, now \in {ClockA} : FromFalsy(p, v, now)

DoFromFalsyPair == \E p \in DOMAIN gens, args \in FalsyPairs : FromPair(p, args)

NextArgs ==
    \/ DoMint
    \/ DoParse
    \/ DoFromFalsy
    \/ DoFromFalsyPair

SpecArgs == InitValue /\ [][NextArgs]_vars

\* C29: the constructor mints (advances the counter, newId() being called)
\* only when it is called with no argument; a call with one or two
\* arguments, falsy ones such as '', 0 and null among them, builds the
\* identifier from its arguments or throws, and leaves the counter as it
\* was.
C29_MintsOnlyWithoutArgument ==
    [][Len(ids') = Len(ids) + 1 =>
          LET e == ids'[Len(ids')]
          IN  IF Len(e.args) = 0
              THEN /\ gens'[e.p].ITEM_ID_counter = (gens[e.p].ITEM_ID_counter + 1) % 4096
                   /\ minted'[e.p] = minted[e.p] + 1
              ELSE /\ gens' = gens
                   /\ minted' = minted
                   /\ e.counter = gens[e.p].ITEM_ID_counter
      ]_vars

(***************************************************************************)
(* Properties of the stored machine ID (specification Spec)                *)
(***************************************************************************)
\* C30: no mint observes an unset machine ID: the module's loading resolves
\* it from the hostname before any identifier can be minted, so whenever
\* newId() can be called the stored machine ID is two hex digits (a value
\* of 0..255), whatever setMachineId calls succeeded or threw before, and
\* setMachineId() without an argument has restored the hostname's value.
C30_MachineIdIsTwoHexDigits ==
    /\ \A i \in 1..Len(ids) : ids[i].op = "mint" => pc[ids[i].p] = "ready"
    /\ \A p \in DOMAIN gens :
           pc[p] = "ready" =>
               LET m == gens[p].ITEM_ID_machine_id
               IN  /\ m.type = "string"
                   /\ Len(m.s) = 2
                   /\ \A k \in 1..Len(m.s) : IsHexChar(m.s[k])
                   /\ (/\ setTo[p].set
                       /\ setTo[p].id = ToNumber(StringV(<<"0", "x">> \o gens[p].digest)))
                      => m.s = gens[p].digest

=============================================================================
